---------------------------- MODULE Spec2Model ----------------------------
(***************************************************************************)
(* Model of the EPOS4 serial driver of src/drivers.py (class EPOS4).       *)
(*                                                                         *)
(* Bytes objects are sequences of integers 0..255.  Python's None is the   *)
(* record NoneBytes / NoneInt, a returned value v is Some(v).              *)
(*                                                                         *)
(* Specifications:                                                         *)
(*   SpecCodec  byte_stuff / byte_unstuff applied to bounded byte strings  *)
(*   SpecCrc    calc_crc / add_crc / crc_match on bounded byte strings,    *)
(*              with single-bit corruption                                 *)
(*   SpecTxn    one read_object / write_object call, step by step, against *)
(*              a drive that answers with one of a set of reply frames,    *)
(*              or not at all                                              *)
(*   SpecSilent the same call against a transport that never produces a    *)
(*              byte, the driver's steps taken fairly                      *)
(*   Spec       one call of set_control, set_mode_of_operation or home,    *)
(*              one transaction per step, against a drive that keeps a     *)
(*              control word, a mode and a position                        *)
(*   SpecBurst  SpecTxn with a drive whose reply frame may arrive in two   *)
(*              bursts                                                     *)
(*   SpecMove   one call of move_with_velocity or move_to_position, on the *)
(*              steps and the drive of Spec                                *)
(*   SpecKeys   read_object_by_name, write_object_by_name and set_control  *)
(*              called with a name in their table and with one that is not *)
(*   SpecLate   SpecTxn with the reply to an earlier, timed-out request    *)
(*              arriving after the request of the call is written          *)
(*   SpecFair   SpecBurst for three calls, the driver's steps taken fairly *)
(*   SpecOps    every operation that ends in set_control: Spec, SpecMove   *)
(*              and initialise, enable, disable, reset_fault, stop         *)
(***************************************************************************)
EXTENDS Integers, Sequences, FiniteSets, TLC

VARIABLES
    \* ---- SpecCodec: the frame codec applied to one byte string
    payload,      \* the byte string handed to byte_stuff or byte_unstuff
    stuffed,      \* byte_stuff(payload)
    unstuffed,    \* result of byte_unstuff
    cpc,          \* "start" | "stuffed" | "round" | "raw" | "off"
    \* ---- SpecCrc: the CRC engine applied to one byte string
    crcData,      \* data followed by the two-byte zero placeholder
    sealed,       \* add_crc(crcData, calc_crc(crcData)), possibly corrupted
    flippedBit,   \* index of the corrupted bit of sealed, -1 when intact
    crcOk,        \* result of crc_match(sealed)
    kpc,          \* "start" | "sealed" | "checked" | "flipped" | "flipchecked" | "off"
    \* ---- SpecTxn, SpecSilent, SpecBurst: one read_object / write_object call on the wire
    strict,       \* struct.unpack refuses a buffer longer than the format
    call,         \* [op, name, data]: read_object_by_name / write_object_by_name
    tpc,          \* "send" | "wait" | "sleep" | "drain" | "done" | "off"
    rxbuf,        \* bytes pending in the serial port's receive buffer
    sent,         \* bytes serial.write has taken
    pending,      \* the drive holds a complete request it has not answered
    elapsed,      \* ticks_diff(time.ticks_ms(), time_started)
    rxData,       \* read_and_unpack's rxData
    result,       \* outcome of the call
    reply,        \* [kind, val, body, bytes]: what the drive answered
    writes,       \* the byte strings handed to serial.write, in order
    bogus_data,   \* pack_and_write's bogus_data: what it read out before writing
    undelivered,  \* bytes of the drive's reply that are still on their way
    \* ---- Spec, SpecMove, SpecKeys: one call made on the object
    api,          \* [fn, arg]: the call
    outcome,      \* what the call returned or raised, once it has ended
    ret,          \* what the last call made by home / move_... returned to it
    control_pc,   \* set_control: "get_control" | "read_mode" | "write" | "returned" | "raised" | "idle"
    command_text, \* set_control's command_text
    existing,     \* set_control's existing
    current_mode, \* set_control's current_mode
    mode_pc,      \* set_mode_of_operation: "write" | "read" | "returned" | "raised" | "idle"
    mode_text,    \* set_mode_of_operation's mode_text
    read_mode,    \* set_mode_of_operation's read_mode
    home_pc,      \* home, move_with_velocity, move_to_position: the statement it is at;
                  \* "by_name" for a read_object_by_name / write_object_by_name call
    comms,        \* home's comms
    pos,          \* home's pos
    drive,        \* [control, mode_display, position]: the drive's registers
    wireLog,      \* the requests the drive has read off the wire, in order
    faults        \* replies so far that were an error, a refusal, malformed or missing

codecVars == <<payload, stuffed, unstuffed, cpc>>
crcVars == <<crcData, sealed, flippedBit, crcOk, kpc>>
wireVars == <<writes, bogus_data, undelivered>>
txnVars == <<strict, call, tpc, rxbuf, sent, pending, elapsed, rxData, result, reply, wireVars>>
seqVars == <<api, outcome, ret, control_pc, command_text, existing, current_mode,
             mode_pc, mode_text, read_mode, home_pc, comms, pos, drive, wireLog, faults>>
vars == <<codecVars, crcVars, txnVars, seqVars>>

----------------------------------------------------------------------------
(* Bounds of the model *)

\* longest byte string handed to the codec
MaxLen == 6
\* most 16-bit data words in front of the CRC placeholder
MaxCrcWords == 2
\* milliseconds the clock advances over one time.sleep_ms(1) of the wait loop
\* (sleep_ms sleeps at least the time asked for)
TickMs == 250
\* most replies of one call that are an error, a refusal, malformed or missing
MaxFaults == 1

----------------------------------------------------------------------------
(* Python values *)

NoneBytes == [none |-> TRUE, val |-> <<>>]
NoneInt == [none |-> TRUE, val |-> 0]
Some(v) == [none |-> FALSE, val |-> v]

\* ba[a:b] for 0 <= a, 0 <= b
Slice(ba, a, b) ==
    LET hi == IF b < Len(ba) THEN b ELSE Len(ba)
    IN IF a >= hi THEN <<>> ELSE [i \in 1..(hi - a) |-> ba[a + i]]

\* ba[0:-n] for n > 0
DropLast(ba, n) == IF Len(ba) <= n THEN <<>> ELSE Slice(ba, 0, Len(ba) - n)

\* ba[-n:] for n > 0
TakeLast(ba, n) == IF Len(ba) <= n THEN ba ELSE Slice(ba, Len(ba) - n, Len(ba))

\* bytes.split(sep) for a one-byte separator
RECURSIVE split(_, _)
split(ba, sep) ==
    IF ba = <<>> THEN << <<>> >>
    ELSE CHOOSE r \in {IF Head(ba) = sep
                       THEN << <<>> >> \o rest
                       ELSE << <<Head(ba)>> \o Head(rest) >> \o Tail(rest)
                       : rest \in {split(Tail(ba), sep)}} : TRUE

\* x & bit and x ^ y on Python integers (x, y >= 0; bit a power of two)
AndBit(x, bit) == ((x \div bit) % 2) * bit

RECURSIVE BitXor(_, _)
BitXor(x, y) ==
    IF y = 0 THEN x
    ELSE IF x = 0 THEN y
    ELSE ((x + y) % 2) + 2 * BitXor(x \div 2, y \div 2)

\* ba with bit k (0-based, bit k % 8 of byte k \div 8) inverted
FlipBit(ba, k) ==
    [i \in 1..Len(ba) |->
        IF i = (k \div 8) + 1 THEN BitXor(ba[i], 2 ^ (k % 8)) ELSE ba[i]]

----------------------------------------------------------------------------
(* EPOS4.__init__: framing characters *)

DLE == 144
STX == 2

----------------------------------------------------------------------------
(* EPOS4.calc_crc, add_crc, crc_match *)

\* the asserts at the head of calc_crc (ba[-1] needs a non-empty ba)
calc_crc_ok(ba) ==
    /\ Len(ba) % 2 = 0
    /\ Len(ba) >= 2
    /\ ba[Len(ba)] = 0
    /\ ba[Len(ba) - 1] = 0

\* struct.unpack('<' + num_words*'H', ba)
wordArray(ba) == [i \in 1..(Len(ba) \div 2) |-> ba[2 * i - 1] + 256 * ba[2 * i]]

ShifterStart == 32768

\* one turn of the while True loop: CRC after the shift, the increment and
\* the conditional reduction
crc_bit(CRC, word, shifter) ==
    LET carry == AndBit(CRC, 32768) > 0
        shifted == CRC * 2
        added == IF AndBit(word, shifter) > 0 THEN shifted + 1 ELSE shifted
    IN IF carry THEN BitXor(added % 65536, 4129) ELSE added

\* the while True loop over one word; each turn's CRC is bound as a value
\* (c) before the next turn starts from it
RECURSIVE crc_word(_, _, _)
crc_word(CRC, word, shifter) ==
    CHOOSE r \in {IF shifter \div 2 = 0
                  THEN crc_bit(c, word, shifter)
                  ELSE crc_word(crc_bit(c, word, shifter), word, shifter \div 2)
                  : c \in {CRC}} : TRUE

\* the for loop over the words
RECURSIVE crc_words(_, _, _)
crc_words(CRC, words, i) ==
    IF i > Len(words) THEN CRC
    ELSE crc_words(crc_word(CRC, words[i], ShifterStart), words, i + 1)

\* CRC.to_bytes(2, 'little')
calc_crc(ba) ==
    LET CRC == crc_words(0, wordArray(ba), 1)
    IN <<CRC % 256, CRC \div 256>>

add_crc(data, crc) == DropLast(data, 2) \o crc

\* crc_match raises when calc_crc's assert on the length fails
crc_match_raises(ba) == ~calc_crc_ok(DropLast(ba, 2) \o <<0, 0>>)

crc_match_low_byte(ba) ==
    LET data == DropLast(ba, 2) \o <<0, 0>>
        crc_received == TakeLast(ba, 2)
        crc_computed == calc_crc(data)
    IN Len(crc_received) = 2 /\ crc_received[1] = crc_computed[1]

crc_match(ba) ==
    LET data == DropLast(ba, 2) \o <<0, 0>>
        crc_received == TakeLast(ba, 2)
        crc_computed == calc_crc(data)
    IN crc_received = crc_computed

----------------------------------------------------------------------------
(* EPOS4.byte_stuff, byte_unstuff *)

\* escaped += s + 2*DLE for every segment but the last, then the last
RECURSIVE escape(_)
escape(segs) ==
    IF Len(segs) = 1 THEN segs[1]
    ELSE segs[1] \o <<DLE, DLE>> \o escape(Tail(segs))

byte_stuff_single(ba) == <<DLE, STX>> \o ba

byte_stuff(ba) == <<DLE, STX>> \o escape(split(ba, DLE))

\* unescaped += s + DLE for s in split[0:-1:2], then split[-1]
RECURSIVE unescape(_, _)
unescape(segs, i) ==
    IF i >= Len(segs) THEN segs[Len(segs)]
    ELSE segs[i] \o <<DLE>> \o unescape(segs, i + 2)

byte_unstuff_no_count(ba) ==
    IF Slice(ba, 0, 2) = <<DLE, STX>>
    THEN CHOOSE r \in {IF \A i \in 1..Len(segs) : (i % 2 = 0) => Len(segs[i]) = 0
                       THEN Some(unescape(segs, 1)) ELSE NoneBytes
                       : segs \in {split(Slice(ba, 2, Len(ba)), DLE)}} : TRUE
    ELSE NoneBytes

byte_unstuff(ba) ==
    IF Slice(ba, 0, 2) = <<DLE, STX>>
    THEN CHOOSE r \in {IF /\ Len(segs) % 2 = 1
                          /\ \A i \in 1..Len(segs) : (i % 2 = 0) => Len(segs[i]) = 0
                       THEN Some(unescape(segs, 1)) ELSE NoneBytes
                       : segs \in {split(Slice(ba, 2, Len(ba)), DLE)}} : TRUE
    ELSE NoneBytes

----------------------------------------------------------------------------
(* EPOS4.__init__: node id, object dictionary, modes, control commands *)

NODE_ID == 0

\* name |-> (index, subindex, data format)
objects == [
    error                |-> <<\H1001, 0, "B">>,
    actual_voltage       |-> <<\H2200, 1, "H">>,
    current_limit        |-> <<\H3001, 2, "L">>,
    homing_current_limit |-> <<\H30b2, 0, "H">>,
    average_current      |-> <<\H30d1, 1, "l">>,
    actual_current       |-> <<\H30d1, 2, "l">>,
    actual_temperature   |-> <<\H3201, 1, "h">>,
    control              |-> <<\H6040, 0, "H">>,
    status               |-> <<\H6041, 0, "H">>,
    mode                 |-> <<\H6060, 0, "b">>,
    mode_display         |-> <<\H6061, 0, "b">>,
    actual_position      |-> <<\H6064, 0, "l">>,
    velocity_demand      |-> <<\H606b, 0, "l">>,
    actual_velocity      |-> <<\H606c, 0, "l">>,
    target_position      |-> <<\H607a, 0, "l">>,
    profile_velocity     |-> <<\H6081, 0, "L">>,
    profile_acceleration |-> <<\H6083, 0, "L">>,
    profile_deceleration |-> <<\H6084, 0, "L">>,
    profile_type         |-> <<\H6086, 0, "h">>,
    homing_method        |-> <<\H6098, 0, "b">>,
    homing_speed_switch  |-> <<\H6099, 1, "L">>,
    target_velocity      |-> <<\H60ff, 0, "l">>]

\* mode text |-> wire value
mode == [PPM |-> 1, PVM |-> 3, HMM |-> 6, CSP |-> 8, CSV |-> 9, CST |-> 10]

\* command text |-> (mask, bit values, applicable mode)
control == [
    shutdown             |-> <<\H0087, \H0006, "ANY">>,
    switch_on            |-> <<\H0087, \H0007, "ANY">>,
    switch_on_and_enable |-> <<\H008f, \H000f, "ANY">>,
    disable_voltage      |-> <<\H0082, \H0000, "ANY">>,
    quick_stop           |-> <<\H0086, \H0002, "ANY">>,
    disable_operation    |-> <<\H008f, \H0007, "ANY">>,
    enable_operation     |-> <<\H008f, \H000f, "ANY">>,
    start                |-> <<\H0100, \H0000, "ANY">>,
    stop                 |-> <<\H0100, \H0100, "ANY">>,
    homing_start         |-> <<\H0010, \H0010, "HMM">>,
    clear_homing_start   |-> <<\H0010, \H0000, "HMM">>,
    absolute             |-> <<\H0040, \H0000, "PPM">>,
    relative             |-> <<\H0040, \H0040, "PPM">>,
    new_setpoint         |-> <<\H0010, \H0010, "PPM">>,
    clear_new_setpoint   |-> <<\H0010, \H0000, "PPM">>,
    move_immediate       |-> <<\H0020, \H0020, "PPM">>,
    move_after_current   |-> <<\H0020, \H0000, "PPM">>,
    fault_low            |-> <<\H0080, \H0000, "ANY">>,
    fault_high           |-> <<\H0080, \H0080, "ANY">>]

----------------------------------------------------------------------------
(* struct: little-endian packing of the formats B b H h L l I *)

calcsize(fmt) ==
    CASE fmt \in {"B", "b"} -> 1
      [] fmt \in {"H", "h"} -> 2
      [] fmt \in {"L", "l", "I"} -> 4

signed(fmt) == fmt \in {"b", "h", "l"}

\* struct.pack('<' + fmt, v): n bytes, least significant first, two's complement
\* (\div rounds down, so a negative v gives its two's complement bytes)
pack(v, n) == [i \in 1..n |-> (v \div (256 ^ (i - 1))) % 256]

RECURSIVE unsignedLE(_)
unsignedLE(ba) == IF ba = <<>> THEN 0 ELSE Head(ba) + 256 * unsignedLE(Tail(ba))

\* struct.unpack('<' + fmt, ba) for one field.  TLC's integers have 32 bits:
\* the fields of the unsigned formats L and I hold values below 2^31 here.
unpack_unsigned_only(fmt, ba) == unsignedLE(ba)

unpack(fmt, ba) ==
    LET top == ba[Len(ba)]
        low == unsignedLE(Slice(ba, 0, Len(ba) - 1))
    IN IF signed(fmt) /\ top >= 128
       THEN low + (top - 256) * 256 ^ (Len(ba) - 1)
       ELSE low + top * 256 ^ (Len(ba) - 1)

\* struct.unpack accepts the buffer: of the format's size exactly (CPython),
\* or of at least the format's size (MicroPython)
unpack_fits(size, ba, exactSize) == IF exactSize THEN Len(ba) = size ELSE Len(ba) >= size

----------------------------------------------------------------------------
(* EPOS4.pack_and_write, read_and_unpack, read_object, write_object *)

\* outcome of a call: a value, None, or an exception that leaves the call
Ret(v) == [exc |-> "", none |-> FALSE, val |-> v]
RetNoneBytes == [exc |-> "", none |-> TRUE, val |-> <<>>]
RetNoneInt == [exc |-> "", none |-> TRUE, val |-> 0]
RetNoneBool == [exc |-> "", none |-> TRUE, val |-> FALSE]
RaiseBytes(e) == [exc |-> e, none |-> FALSE, val |-> <<>>]
RaiseInt(e) == [exc |-> e, none |-> FALSE, val |-> 0]
RaiseBool(e) == [exc |-> e, none |-> FALSE, val |-> FALSE]

\* a local variable of a call before its assignment
Unbound == RaiseInt("UnboundLocalError")

\* struct.pack('<BBBHBH', OPCODE, LENGTH, NODE_ID, index, subindex, 0)
read_frame(index, subindex) ==
    <<\H60, 2, NODE_ID>> \o pack(index, 2) \o <<subindex>> \o <<0, 0>>

\* a write frame whose value field is a 16-bit word
write_frame_word(index, subindex, data) ==
    <<\H68, 4, NODE_ID>> \o pack(index, 2) \o <<subindex>> \o pack(data, 2) \o <<0, 0>>

\* struct.pack('<BBBHB' + 'l' + 'H', OPCODE, LENGTH, NODE_ID, index, subindex, data, 0)
write_frame(index, subindex, data) ==
    <<\H68, 4, NODE_ID>> \o pack(index, 2) \o <<subindex>> \o pack(data, 4) \o <<0, 0>>

\* the bytes pack_and_write hands to serial.write
pack_and_write_f3(ba) ==
    CHOOSE f3 \in {byte_stuff(f2) : f2 \in {add_crc(ba, crc) : crc \in {calc_crc(ba)}}} : TRUE

\* read_and_unpack once the receive loop has ended with rxData
read_and_unpack_rx(rx) ==
    CHOOSE r \in {IF ~un.none
                  THEN IF crc_match_raises(un.val) THEN RaiseBytes("AssertionError")
                       ELSE IF crc_match(un.val) THEN Ret(DropLast(un.val, 2))
                       ELSE RetNoneBytes
                  ELSE RetNoneBytes
                  : un \in {byte_unstuff(rx)}} : TRUE

\* read_object without the test of the reported length
read_object_unpacked_any_length(data_format, recvd, exactSize) ==
    IF recvd.exc # "" THEN RaiseInt(recvd.exc)
    ELSE IF recvd.none THEN RetNoneInt
    ELSE IF ~unpack_fits(6 + calcsize(data_format), recvd.val, exactSize) THEN RetNoneInt
    ELSE LET u0 == recvd.val[1]
             u2 == unpack("I", Slice(recvd.val, 2, 6))
             u3 == unpack(data_format, Slice(recvd.val, 6, 6 + calcsize(data_format)))
         IN IF u0 = 0 /\ u2 = 0 THEN Ret(u3) ELSE RetNoneInt

\* read_object after read_and_unpack has given recvd
read_object_unpacked(data_format, recvd, exactSize) ==
    IF recvd.exc # "" THEN RaiseInt(recvd.exc)
    ELSE IF recvd.none THEN RetNoneInt
    ELSE IF ~unpack_fits(6 + calcsize(data_format), recvd.val, exactSize) THEN RetNoneInt
    ELSE LET u0 == recvd.val[1]
             u1 == recvd.val[2]
             u2 == unpack("I", Slice(recvd.val, 2, 6))
             u3 == unpack(data_format, Slice(recvd.val, 6, 6 + calcsize(data_format)))
         IN IF u0 = 0 /\ u1 = 4 /\ u2 = 0 THEN Ret(u3) ELSE RetNoneInt

\* write_object after read_and_unpack has given recvd
write_object_unpacked_lax(recvd, exactSize) ==
    IF recvd.exc # "" THEN RaiseBool(recvd.exc)
    ELSE IF recvd.none THEN Ret(FALSE)
    ELSE IF ~unpack_fits(4, recvd.val, exactSize) THEN RaiseBool("struct.error")
    ELSE Ret(recvd.val[1] = 0 /\ recvd.val[2] = 2)

write_object_unpacked(recvd, exactSize) ==
    IF recvd.exc # "" THEN RaiseBool(recvd.exc)
    ELSE IF recvd.none THEN Ret(FALSE)
    ELSE IF ~unpack_fits(4, recvd.val, exactSize) THEN RaiseBool("struct.error")
    ELSE LET u0 == recvd.val[1]
             u1 == recvd.val[2]
             u2 == unpack("H", Slice(recvd.val, 2, 4))
         IN Ret(u0 = 0 /\ u1 = 2 /\ u2 = 0)

\* the ticks_diff(...) >= 1000 test of read_and_unpack
TIMEOUT_MS == 1000

\* diff is ticks_diff(time.ticks_ms(), time_started)
timed_out_reversed(diff) == 0 - diff >= TIMEOUT_MS

\* a wait that gives up at the first look at the clock
timed_out_at_once(diff) == diff >= 0

timed_out(diff) == diff >= TIMEOUT_MS

----------------------------------------------------------------------------
(* The drive's side of the wire *)

\* a frame as the drive sends it: body, CRC over the body's words, stuffing
DriveFrame(body) ==
    byte_stuff(add_crc(body \o <<0, 0>>, calc_crc(body \o <<0, 0>>)))

\* a body of odd length has no whole number of words: the drive pads it with
\* a zero byte for the CRC, and sends the body and that CRC
DriveFrameOdd(body) ==
    byte_stuff(body \o calc_crc(body \o <<0>> \o <<0, 0>>))

\* a frame whose CRC is wrong in one bit
DriveFrameBadCrc(body) ==
    byte_stuff(FlipBit(add_crc(body \o <<0, 0>>, calc_crc(body \o <<0, 0>>)),
                       8 * Len(body)))

\* values a drive holds in an object of the given format
Values(fmt) ==
    CASE fmt = "B" -> {0, 144, 255}
      [] fmt = "b" -> {-128, -1, 6}
      [] fmt = "H" -> {0, \H1234, \H9090}
      [] fmt = "h" -> {-32768, -1, 322}
      [] fmt = "L" -> {0, 500, \H10909090}
      [] fmt = "l" -> {-2147483647 - 1, -1, 1000}

\* error codes of the drive: a 32-bit abort code, and the 16-bit 0x0607
ErrorCode32 == \H06090011
ErrorCode16 == \H0607

Reply(kind, val, body, bytes) ==
    [kind |-> kind, val |-> val, body |-> body, bytes |-> bytes]

NoReply == [kind |-> "none", val |-> 0, body |-> <<>>, bytes |-> <<>>]

\* bytes that unstuff to an odd number of bytes and to fewer than two
MalformedReplies ==
    {Reply("odd", 0, <<>>, <<DLE, STX, 1, 2, 3>>), Reply("tiny", 0, <<>>, <<DLE, STX, 7>>)}

\* answers to a read request of an object of format fmt
\*   exact   data field of the format's width
\*   full    data field of four bytes, the value sign- or zero-extended
\*   error   non-zero error code
\*   badop / badlen   a wrong opcode echo, a wrong length
\*   badcrc  one CRC bit wrong;  noframe  bytes without the preamble
\*   odd / tiny   a frame of three bytes, of one byte, after the preamble
ReadReplies(fmt) ==
    LET head == <<0, 4>> \o pack(0, 4)
        exact(v) == head \o pack(v, calcsize(fmt))
        full(v) == head \o pack(v, 4)
        v0 == CHOOSE v \in Values(fmt) : TRUE
    IN  {Reply("exact", v, exact(v),
               IF calcsize(fmt) % 2 = 0 THEN DriveFrame(exact(v))
               ELSE DriveFrameOdd(exact(v))) : v \in Values(fmt)}
        \cup {Reply("full", v, full(v), DriveFrame(full(v))) : v \in Values(fmt)}
        \cup {Reply("error", 0, b, DriveFrame(b)) :
                 b \in {<<0, 4>> \o pack(ErrorCode32, 4) \o pack(0, 4)}}
        \cup {Reply("badop", v0, b, DriveFrame(b)) :
                 b \in {<<1, 4>> \o pack(0, 4) \o pack(v0, 4)}}
        \cup {Reply("badlen", v0, b, DriveFrame(b)) :
                 b \in {<<0, 2>> \o pack(0, 4) \o pack(v0, 4)}}
        \cup {Reply("badcrc", v0, full(v0), DriveFrameBadCrc(full(v0)))}
        \cup {Reply("noframe", 0, <<>>, <<65, 66>>)}
        \cup MalformedReplies

\* answers to a write request
\*   ack / nack     opcode 0, length 2, a 16-bit error code (zero / non-zero)
\*   ack32 / nack32 the same with a 32-bit error code
\*   short / empty  a body of two bytes, of no byte
WriteReplies ==
    {Reply("ack", 0, b, DriveFrame(b)) : b \in {<<0, 2>> \o pack(0, 2)}}
    \cup {Reply("nack", ErrorCode16, b, DriveFrame(b)) :
             b \in {<<0, 2>> \o pack(ErrorCode16, 2)}}
    \cup {Reply("ack32", 0, b, DriveFrame(b)) : b \in {<<0, 2>> \o pack(0, 4)}}
    \cup {Reply("nack32", ErrorCode32, b, DriveFrame(b)) :
             b \in {<<0, 2>> \o pack(ErrorCode32, 4)}}
    \cup {Reply("badop", 0, b, DriveFrame(b)) : b \in {<<1, 2, 0, 0>>}}
    \cup {Reply("badlen", 0, b, DriveFrame(b)) : b \in {<<0, 4, 0, 0>>}}
    \cup {Reply("short", 0, b, DriveFrame(b)) : b \in {<<0, 2>>}}
    \cup {Reply("empty", 0, b, DriveFrame(b)) : b \in {<<>>}}
    \cup {Reply("badcrc", 0, b, DriveFrameBadCrc(b)) : b \in {<<0, 2, 0, 0>>}}
    \cup {Reply("noframe", 0, <<>>, <<65, 66>>)}
    \cup MalformedReplies

----------------------------------------------------------------------------
(* Bounded byte strings *)

\* byte values given to the codec: the escape, the start marker, a plain byte
CodecBytes == {DLE, STX, 65}

\* byte values given to the CRC engine
CrcBytes == {0, DLE, 165}

BytesUpTo(S, n) == UNION {[1..k -> S] : k \in 0..n}

----------------------------------------------------------------------------
(* The variables of a layer that a specification does not use *)

CodecOff ==
    /\ payload = <<>>
    /\ stuffed = <<>>
    /\ unstuffed = NoneBytes
    /\ cpc = "off"

CrcOff ==
    /\ crcData = <<>>
    /\ sealed = <<>>
    /\ flippedBit = -1
    /\ crcOk = FALSE
    /\ kpc = "off"

TxnIdle ==
    /\ call = [op |-> "none", name |-> "", data |-> 0]
    /\ tpc = "off"
    /\ rxbuf = <<>>
    /\ sent = <<>>
    /\ pending = FALSE
    /\ elapsed = 0
    /\ rxData = <<>>
    /\ result = RetNoneInt
    /\ reply = NoReply
    /\ writes = <<>>
    /\ bogus_data = <<>>
    /\ undelivered = <<>>

TxnOff ==
    /\ strict = FALSE
    /\ TxnIdle

SeqOff ==
    /\ api = [fn |-> "none", arg |-> ""]
    /\ outcome = RetNoneBool
    /\ ret = RetNoneBool
    /\ control_pc = "idle"
    /\ command_text = ""
    /\ existing = RetNoneInt
    /\ current_mode = RetNoneInt
    /\ mode_pc = "idle"
    /\ mode_text = ""
    /\ read_mode = RetNoneInt
    /\ home_pc = "idle"
    /\ comms = <<>>
    /\ pos = RetNoneInt
    /\ drive = [control |-> 0, mode_display |-> 0, position |-> 0]
    /\ wireLog = <<>>
    /\ faults = 0

----------------------------------------------------------------------------
(* SpecCodec *)

InitCodec ==
    /\ payload \in BytesUpTo(CodecBytes, MaxLen)
    /\ stuffed = <<>>
    /\ unstuffed = NoneBytes
    /\ cpc = "start"
    /\ CrcOff
    /\ TxnOff
    /\ SeqOff

\* byte_stuff(payload)
Stuff ==
    /\ cpc = "start"
    /\ stuffed' = byte_stuff(payload)
    /\ cpc' = "stuffed"
    /\ UNCHANGED <<payload, unstuffed, crcVars, txnVars, seqVars>>

\* byte_unstuff(byte_stuff(payload))
Unstuff ==
    /\ cpc = "stuffed"
    /\ unstuffed' = byte_unstuff(stuffed)
    /\ cpc' = "round"
    /\ UNCHANGED <<payload, stuffed, crcVars, txnVars, seqVars>>

\* byte_unstuff(payload): the byte string taken as a received frame
UnstuffRaw ==
    /\ cpc = "start"
    /\ unstuffed' = byte_unstuff(payload)
    /\ cpc' = "raw"
    /\ UNCHANGED <<payload, stuffed, crcVars, txnVars, seqVars>>

NextCodec == Stuff \/ Unstuff \/ UnstuffRaw

SpecCodec == InitCodec /\ [][NextCodec]_vars

----------------------------------------------------------------------------
(* SpecCrc *)

\* even-length byte strings whose last two bytes are zero
CrcInputs == {b \o <<0, 0>> : b \in UNION {[1..(2 * w) -> CrcBytes] : w \in 0..MaxCrcWords}}

InitCrc ==
    /\ crcData \in CrcInputs
    /\ sealed = <<>>
    /\ flippedBit = -1
    /\ crcOk = FALSE
    /\ kpc = "start"
    /\ CodecOff
    /\ TxnOff
    /\ SeqOff

\* d[:-2] + calc_crc(d)
Seal ==
    /\ kpc = "start"
    /\ calc_crc_ok(crcData)
    /\ sealed' = add_crc(crcData, calc_crc(crcData))
    /\ kpc' = "sealed"
    /\ UNCHANGED <<crcData, flippedBit, crcOk, codecVars, txnVars, seqVars>>

\* crc_match on the sealed frame, intact or corrupted
Match ==
    /\ kpc \in {"sealed", "flipped"}
    /\ ~crc_match_raises(sealed)
    /\ crcOk' = crc_match(sealed)
    /\ kpc' = IF kpc = "sealed" THEN "checked" ELSE "flipchecked"
    /\ UNCHANGED <<crcData, sealed, flippedBit, codecVars, txnVars, seqVars>>

\* one bit of the sealed frame is inverted on the way
Corrupt ==
    /\ kpc = "sealed"
    /\ \E k \in 0..(8 * Len(sealed) - 1) :
        /\ sealed' = FlipBit(sealed, k)
        /\ flippedBit' = k
    /\ kpc' = "flipped"
    /\ UNCHANGED <<crcData, crcOk, codecVars, txnVars, seqVars>>

NextCrc == Seal \/ Match \/ Corrupt

SpecCrc == InitCrc /\ [][NextCrc]_vars

----------------------------------------------------------------------------
(* SpecTxn: one transaction *)

\* values handed to write_object_by_name
WriteValues == {500, -3, DLE, 37}

TxnCalls ==
    {[op |-> "read", name |-> n, data |-> 0] : n \in DOMAIN objects}
    \cup {[op |-> "write", name |-> n, data |-> d] : n \in DOMAIN objects, d \in WriteValues}

\* what the receive buffer holds when a call begins: nothing, one left-over
\* byte, or the acknowledgement of an earlier write that came too late
StrayBytes == {<<>>, <<DLE>>, DriveFrame(<<0, 2>> \o pack(0, 2))}

\* the receive buffer after self.serial.read() of pack_and_write has not
\* taken the pending bytes out
serial_read_keeps(buf) == buf

\* the receive buffer after self.serial.read(): every pending byte is taken
serial_read(buf) == <<>>

\* a driver that sends the request again when the wait has timed out
on_timeout_retry == "send"

\* where the call is after read_and_unpack has timed out: it returns
on_timeout == "done"

InitTxn ==
    /\ strict \in BOOLEAN
    /\ call \in TxnCalls
    /\ tpc = "send"
    /\ rxbuf \in StrayBytes
    /\ writes = <<>>
    /\ bogus_data = <<>>
    /\ undelivered = <<>>
    /\ sent = <<>>
    /\ pending = FALSE
    /\ elapsed = 0
    /\ rxData = <<>>
    /\ result = RetNoneInt
    /\ reply = NoReply
    /\ CodecOff
    /\ CrcOff
    /\ SeqOff

\* the request frame of the call, before CRC and stuffing
request_frame(c) ==
    IF c.op = "read"
    THEN read_frame(objects[c.name][1], objects[c.name][2])
    ELSE write_frame(objects[c.name][1], objects[c.name][2], c.data)

\* what read_object / write_object returns once read_and_unpack has returned
transaction_result(c, recvd, strictUnpack) ==
    IF c.op = "read"
    THEN read_object_unpacked(objects[c.name][3], recvd, strictUnpack)
    ELSE write_object_unpacked(recvd, strictUnpack)

\* pack_and_write: drain the receive buffer, write the frame; serial.write
\* reports all bytes taken, or one short.  write_object returns False on a
\* short write; read_object goes on to read in either case.
PackAndWrite ==
    /\ tpc = "send"
    /\ \E f3 \in {pack_and_write_f3(request_frame(call))} :
         \E num_bytes_sent \in {Len(f3), Len(f3) - 1} :
            /\ bogus_data' = IF rxbuf # <<>> THEN rxbuf ELSE bogus_data
            /\ rxbuf' = IF rxbuf # <<>> THEN serial_read(rxbuf) ELSE rxbuf
            /\ writes' = Append(writes, f3)
            /\ sent' = Slice(f3, 0, num_bytes_sent)
            /\ pending' = (num_bytes_sent = Len(f3))
            /\ IF call.op = "write" /\ num_bytes_sent # Len(f3)
               THEN /\ result' = Ret(FALSE)
                    /\ tpc' = "done"
               ELSE /\ result' = result
                    /\ tpc' = "wait"
    /\ elapsed' = 0
    /\ UNCHANGED <<strict, call, rxData, reply, undelivered, codecVars, crcVars, seqVars>>

\* read_and_unpack: the test of `while self.serial.any() == 0`
Poll ==
    /\ tpc = "wait"
    /\ IF rxbuf = <<>>
       THEN /\ tpc' = "sleep"
            /\ elapsed' = elapsed
       ELSE /\ tpc' = "drain"
            /\ elapsed' = 0      \* the clock is not read again
    /\ rxData' = <<>>
    /\ UNCHANGED <<strict, call, rxbuf, sent, pending, result, reply, wireVars, codecVars, crcVars, seqVars>>

\* read_and_unpack: time.sleep_ms(1), then the timeout test
Sleep ==
    /\ tpc = "sleep"
    /\ elapsed' = elapsed + TickMs
    /\ IF timed_out(elapsed')
       THEN /\ result' = transaction_result(call, RetNoneBytes, strict)
            /\ tpc' = on_timeout
       ELSE /\ result' = result
            /\ tpc' = "wait"
    /\ UNCHANGED <<strict, call, rxbuf, sent, pending, rxData, reply, wireVars, codecVars, crcVars, seqVars>>

\* read_and_unpack: one turn of `while self.serial.any() > 0`
DrainByte ==
    /\ tpc = "drain"
    /\ rxbuf # <<>>
    /\ rxData' = rxData \o <<Head(rxbuf)>>
    /\ rxbuf' = Tail(rxbuf)
    /\ UNCHANGED <<strict, call, tpc, sent, pending, elapsed, result, reply, wireVars, codecVars, crcVars, seqVars>>

\* read_and_unpack: the buffer is empty; unstuff, check the CRC, and
\* read_object / write_object unpack what is left
Decode ==
    /\ tpc = "drain"
    /\ rxbuf = <<>>
    /\ \E recvd \in {read_and_unpack_rx(rxData)} :
         \E r \in {transaction_result(call, recvd, strict)} : result' = r
    /\ tpc' = "done"
    /\ UNCHANGED <<strict, call, rxbuf, sent, pending, elapsed, rxData, reply, wireVars, codecVars, crcVars, seqVars>>

\* the drive answers the request while the driver waits: the whole reply
\* frame is in the receive buffer before the driver polls again
DriveReply ==
    /\ pending
    /\ tpc \in {"wait", "sleep"}
    /\ \E r \in (IF call.op = "read" THEN ReadReplies(objects[call.name][3])
                 ELSE WriteReplies) :
        /\ rxbuf' = rxbuf \o r.bytes
        /\ reply' = r
    /\ pending' = FALSE
    /\ UNCHANGED <<strict, call, tpc, sent, elapsed, rxData, result, wireVars, codecVars, crcVars, seqVars>>

NextTxn == PackAndWrite \/ Poll \/ Sleep \/ DrainByte \/ Decode \/ DriveReply

SpecTxn == InitTxn /\ [][NextTxn]_vars

\* a transport that never produces a byte; the driver keeps running
NextSilent == PackAndWrite \/ Poll \/ Sleep

SpecSilent == InitTxn /\ [][NextSilent]_vars /\ WF_vars(NextSilent)

\* where the drive's reply may be cut when it arrives in two bursts
BurstCuts(bytes) == {k \in {1, 2, Len(bytes) \div 2} : k < Len(bytes)}

\* the drive answers, and only the first bytes of the reply frame are in the
\* receive buffer when the driver polls next
DriveBurst ==
    /\ pending
    /\ tpc \in {"wait", "sleep"}
    /\ \E r \in (IF call.op = "read" THEN ReadReplies(objects[call.name][3])
                 ELSE WriteReplies) :
        \E k \in BurstCuts(r.bytes) :
            /\ rxbuf' = rxbuf \o Slice(r.bytes, 0, k)
            /\ undelivered' = Slice(r.bytes, k, Len(r.bytes))
            /\ reply' = r
    /\ pending' = FALSE
    /\ UNCHANGED <<strict, call, tpc, sent, elapsed, rxData, result, writes, bogus_data,
                   codecVars, crcVars, seqVars>>

\* the rest of the reply frame arrives while the driver waits or reads
DriveRest ==
    /\ undelivered # <<>>
    /\ tpc \in {"wait", "sleep", "drain"}
    /\ rxbuf' = rxbuf \o undelivered
    /\ undelivered' = <<>>
    /\ UNCHANGED <<strict, call, tpc, sent, pending, elapsed, rxData, result, reply,
                   writes, bogus_data, codecVars, crcVars, seqVars>>

NextBurst ==
    PackAndWrite \/ Poll \/ Sleep \/ DrainByte \/ Decode \/ DriveReply \/ DriveBurst \/ DriveRest

SpecBurst == InitTxn /\ [][NextBurst]_vars

\* replies of the drive to the request of an earlier call that has timed
\* out: the acknowledgement of a write, the value 0x1234 of a read
LateReplies ==
    {DriveFrame(<<0, 2>> \o pack(0, 2)),
     DriveFrame(<<0, 4>> \o pack(0, 4) \o pack(\H1234, 4))}

\* a call that begins while the reply to the earlier request is on its way
InitLate ==
    /\ strict \in BOOLEAN
    /\ call \in TxnCalls
    /\ tpc = "send"
    /\ rxbuf = <<>>
    /\ writes = <<>>
    /\ bogus_data = <<>>
    /\ undelivered \in LateReplies
    /\ sent = <<>>
    /\ pending = FALSE
    /\ elapsed = 0
    /\ rxData = <<>>
    /\ result = RetNoneInt
    /\ reply = NoReply
    /\ CodecOff
    /\ CrcOff
    /\ SeqOff

\* the late reply arrives after the request of the call is written (DriveRest),
\* before or after the drive's reply to that request
NextLate ==
    PackAndWrite \/ Poll \/ Sleep \/ DrainByte \/ Decode \/ DriveReply \/ DriveRest

SpecLate == InitLate /\ [][NextLate]_vars

\* calls of the fair runs: reads of a 16-bit and an 8-bit object, a write
FairCalls ==
    {[op |-> "read", name |-> "status", data |-> 0],
     [op |-> "read", name |-> "mode_display", data |-> 0],
     [op |-> "write", name |-> "control", data |-> 500]}

InitFair == InitTxn /\ call \in FairCalls

\* the steps of the driver: a sequential program, it always takes its next one
DriverStep == PackAndWrite \/ Poll \/ Sleep \/ DrainByte \/ Decode

\* the driver keeps running; the drive answers whole, in two bursts, in part
\* or not at all
SpecFair == InitFair /\ [][NextBurst]_vars /\ WF_vars(DriverStep)

----------------------------------------------------------------------------
(* Spec: one call of set_control, set_mode_of_operation or home, one        *)
(* transaction per step, against a drive that keeps its registers           *)

\* x & y, x | y and ~x on Python integers of either sign
RECURSIVE BitAnd(_, _)
BitAnd(x, y) ==
    IF x = 0 \/ y = 0 THEN 0
    ELSE IF x = -1 THEN y
    ELSE IF y = -1 THEN x
    ELSE (x % 2) * (y % 2) + 2 * BitAnd(x \div 2, y \div 2)

RECURSIVE BitOr(_, _)
BitOr(x, y) ==
    IF x = 0 THEN y
    ELSE IF y = 0 THEN x
    ELSE IF x = -1 \/ y = -1 THEN -1
    ELSE (IF x % 2 = 1 \/ y % 2 = 1 THEN 1 ELSE 0) + 2 * BitOr(x \div 2, y \div 2)

\* an inversion of the mask within its low byte
Invert_low_byte(x) == 255 - (x % 256)

\* ~mask
Invert(x) == 0 - x - 1

\* set_control: masked bits from the table entry
data_to_write_overwrite(ex, mask, bits) == bits

\* set_control: (existing & ~mask) | (control & mask)
data_to_write(ex, mask, bits) == BitOr(BitAnd(ex, Invert(mask)), BitAnd(bits, mask))

\* set_control: the two asserts on the mode; current is what
\* read_object_by_name('mode_display') returned
mode_allowed_any(applicable_mode, current) == TRUE

mode_allowed(applicable_mode, current) ==
    \/ applicable_mode = "ANY"
    \/ /\ applicable_mode \in DOMAIN mode
       /\ ~current.none
       /\ mode[applicable_mode] = current.val

\* set_mode_of_operation: read_mode == self.mode[mode_text]
mode_confirmed_always(read, text) == TRUE

mode_confirmed(read, text) == ~read.none /\ read.val = mode[text]

\* all(comms): None and False are false
all(results) == \A i \in 1..Len(results) : ~results[i].none /\ results[i].val

\* home('in_place'): the result once the three writes are in comms; position
\* is what get_actual_position returned
home_result_ignores_position(results, position) == all(results)

home_result(results, position) ==
    all(results) /\ ~position.none /\ position.val = 0

\* ---- the drive

\* the object at an index and subindex of the dictionary
object_at(index, subindex) ==
    CHOOSE n \in DOMAIN objects : objects[n][1] = index /\ objects[n][2] = subindex

\* the request the drive reads off the wire: unstuffed, the fields taken apart
drive_request(bytes) ==
    LET b == byte_unstuff(bytes).val
    IN [op |-> IF b[1] = \H60 THEN "read" ELSE "write",
        name |-> object_at(unpack("H", Slice(b, 3, 5)), b[6]),
        data |-> IF b[1] = \H60 THEN 0 ELSE unpack("l", Slice(b, 6, 10))]

\* the value the drive holds in an object
drive_value(d, name) ==
    CASE name = "control" -> d.control
      [] name = "mode_display" -> d.mode_display
      [] name = "actual_position" -> d.position
      [] OTHER -> 0

\* answers of the drive to a read: the value in a data field of four bytes or
\* of the format's width, an error code, or nothing
ReadKinds == {"full", "exact", "error", "silent"}

\* answers to a write: acknowledged, refused with an error code, nothing, or a
\* body that stops after opcode and length
WriteKinds == {"ack", "nack", "silent", "short"}

Faulty(kind) == kind \in {"error", "silent", "nack", "short"}

read_reply(fmt, v, kind) ==
    LET head == <<0, 4>> \o pack(0, 4)
    IN CASE kind = "full" -> DriveFrame(head \o pack(v, 4))
         [] kind = "exact" /\ calcsize(fmt) % 2 = 0 -> DriveFrame(head \o pack(v, calcsize(fmt)))
         [] kind = "exact" /\ calcsize(fmt) % 2 = 1 -> DriveFrameOdd(head \o pack(v, calcsize(fmt)))
         [] kind = "error" -> DriveFrame(<<0, 4>> \o pack(ErrorCode32, 4) \o pack(0, 4))

write_reply(kind) ==
    CASE kind = "ack" -> DriveFrame(<<0, 2>> \o pack(0, 2))
      [] kind = "nack" -> DriveFrame(<<0, 2>> \o pack(ErrorCode16, 2))
      [] kind = "short" -> DriveFrame(<<0, 2>>)

\* the drive's registers after a write it has taken; done: the drive carries
\* the command out before the next request (a mode change takes effect, a
\* homing run started by the rising homing_start bit in HMM reaches zero)
drive_written(d, req, done) ==
    CASE req.name = "control" ->
            [d EXCEPT !.control = req.data % 65536,
                      !.position = IF /\ done
                                      /\ d.mode_display = mode.HMM
                                      /\ AndBit(req.data % 65536, 16) > 0
                                      /\ AndBit(d.control, 16) = 0
                                   THEN 0 ELSE @]
      [] req.name = "mode" ->
            [d EXCEPT !.mode_display = IF done THEN req.data ELSE @]
      [] OTHER -> d

\* ---- transactions, each one step of the caller

\* the bytes read_object_by_name / write_object_by_name put on the wire
read_request(name) == pack_and_write_f3(read_frame(objects[name][1], objects[name][2]))
write_request(name, data) ==
    pack_and_write_f3(write_frame(objects[name][1], objects[name][2], data))

\* read_object_by_name(name) when the drive d answers the request with kind
read_object_by_name(name, d, kind, exactSize) ==
    LET req == drive_request(read_request(name))
        fmt == objects[name][3]
        recvd == IF kind = "silent" THEN RetNoneBytes
                 ELSE read_and_unpack_rx(read_reply(fmt, drive_value(d, req.name), kind))
    IN read_object_unpacked(fmt, recvd, exactSize)

\* write_object_by_name(name, data) when the drive answers with kind
write_object_by_name(name, data, kind, exactSize) ==
    LET recvd == IF kind = "silent" THEN RetNoneBytes
                 ELSE read_and_unpack_rx(write_reply(kind))
    IN write_object_unpacked(recvd, exactSize)

SeqCalls ==
    {[fn |-> "set_control", arg |-> c] : c \in DOMAIN control}
    \cup {[fn |-> "set_mode_of_operation", arg |-> m] : m \in DOMAIN mode}
    \cup {[fn |-> "home", arg |-> m] : m \in {"in_place", "crash", "other"}}

\* control words and modes the drive starts with
ControlValues == {0, \HFFFF, \HA55A}
ModeValues == {mode.PPM, mode.PVM, mode.HMM}

ctlLocals == <<command_text, existing, current_mode>>
modeLocals == <<mode_text, read_mode>>
homeLocals == <<comms, pos>>

Init ==
    /\ strict \in BOOLEAN
    /\ TxnIdle
    /\ CodecOff
    /\ CrcOff
    /\ api \in SeqCalls
    /\ drive \in [control : ControlValues, mode_display : ModeValues, position : {1000}]
    /\ wireLog = <<>>
    /\ faults = 0
    /\ outcome = RetNoneBool
    /\ ret = RetNoneBool
    /\ control_pc = IF api.fn = "set_control" THEN "get_control" ELSE "idle"
    /\ command_text = IF api.fn = "set_control" THEN api.arg ELSE ""
    /\ existing = Unbound
    /\ current_mode = Unbound
    /\ mode_pc = IF api.fn = "set_mode_of_operation" THEN "write" ELSE "idle"
    /\ mode_text = IF api.fn = "set_mode_of_operation" THEN api.arg ELSE ""
    /\ read_mode = Unbound
    /\ home_pc = IF api.fn = "home" THEN "set_mode" ELSE "idle"
    /\ comms = <<>>
    /\ pos = Unbound

\* set_control or set_mode_of_operation is running
InSetControl == control_pc \in {"get_control", "read_mode", "write"}
InSetMode == mode_pc \in {"write", "read"}

\* a read transaction of the running call: the request is on the wire and
\* the drive has answered it
ReadWire(name, kind) ==
    /\ Faulty(kind) => faults < MaxFaults
    /\ faults' = faults + (IF Faulty(kind) THEN 1 ELSE 0)
    /\ wireLog' = Append(wireLog, drive_request(read_request(name)))
    /\ drive' = drive

\* a write transaction of the running call
WriteWire(name, data, kind, done) ==
    /\ Faulty(kind) => faults < MaxFaults
    /\ faults' = faults + (IF Faulty(kind) THEN 1 ELSE 0)
    /\ wireLog' = Append(wireLog, drive_request(write_request(name, data)))
    /\ drive' = IF kind \in {"ack", "short"}
                THEN drive_written(drive, drive_request(write_request(name, data)), done)
                ELSE drive

\* the primitives built from several calls; home_pc is the statement the
\* running one is at
Sequencers == {"home", "move_with_velocity", "move_to_position",
               "initialise", "enable", "disable", "reset_fault", "stop"}

\* an exception leaves every frame: nothing in home, move_with_velocity,
\* move_to_position, set_control or set_mode_of_operation catches it
Raised(e) ==
    /\ outcome' = RaiseBool(e)
    /\ ret' = ret
    /\ control_pc' = IF InSetControl THEN "raised" ELSE control_pc
    /\ mode_pc' = IF InSetMode THEN "raised" ELSE mode_pc
    /\ home_pc' = IF api.fn \in Sequencers THEN "raised" ELSE home_pc

\* set_control returns r to home, or to the caller of the model's call
SetControlReturns(r) ==
    /\ control_pc' = "returned"
    /\ outcome' = IF api.fn = "set_control" THEN r ELSE outcome
    /\ ret' = IF api.fn = "set_control" THEN ret ELSE r
    /\ UNCHANGED <<mode_pc, home_pc>>

SetModeReturns(r) ==
    /\ mode_pc' = "returned"
    /\ outcome' = IF api.fn = "set_mode_of_operation" THEN r ELSE outcome
    /\ ret' = IF api.fn = "set_mode_of_operation" THEN ret ELSE r
    /\ UNCHANGED <<control_pc, home_pc>>

\* set_control: existing = self.get_control(); None ends the call with None
SetControlGetControl ==
    /\ control_pc = "get_control"
    /\ \E kind \in ReadKinds :
        /\ ReadWire("control", kind)
        /\ \E r \in {read_object_by_name("control", drive, kind, strict)} :
            /\ existing' = r
            /\ IF r.exc # "" THEN Raised(r.exc)
               ELSE IF r.none THEN SetControlReturns(RetNoneBool)
               ELSE /\ control_pc' = "read_mode"
                    /\ UNCHANGED <<outcome, ret, mode_pc, home_pc>>
    /\ UNCHANGED <<api, command_text, current_mode, modeLocals, homeLocals, codecVars, crcVars, txnVars>>

\* set_control: current_mode = self.read_object_by_name('mode_display') and
\* the asserts on the command and its mode
SetControlReadMode ==
    /\ control_pc = "read_mode"
    /\ \E kind \in ReadKinds :
        /\ ReadWire("mode_display", kind)
        /\ \E r \in {read_object_by_name("mode_display", drive, kind, strict)} :
            /\ current_mode' = r
            /\ IF r.exc # "" THEN Raised(r.exc)
               ELSE IF command_text \notin DOMAIN control THEN Raised("AssertionError")
               ELSE IF ~mode_allowed(control[command_text][3], r) THEN Raised("AssertionError")
               ELSE /\ control_pc' = "write"
                    /\ UNCHANGED <<outcome, ret, mode_pc, home_pc>>
    /\ UNCHANGED <<api, command_text, existing, modeLocals, homeLocals, codecVars, crcVars, txnVars>>

\* set_control: return self.write_object_by_name('control', data_to_write)
SetControlWrite ==
    /\ control_pc = "write"
    /\ \E kind \in WriteKinds, done \in BOOLEAN :
        \E data \in {data_to_write(existing.val, control[command_text][1],
                                   control[command_text][2])} :
            /\ WriteWire("control", data, kind, done)
            /\ \E r \in {write_object_by_name("control", data, kind, strict)} :
                IF r.exc # "" THEN Raised(r.exc) ELSE SetControlReturns(r)
    /\ UNCHANGED <<api, ctlLocals, modeLocals, homeLocals, codecVars, crcVars, txnVars>>

\* set_mode_of_operation: self.write_object_by_name('mode', self.mode[mode_text]),
\* the result dropped
SetModeWrite ==
    /\ mode_pc = "write"
    /\ \E kind \in WriteKinds, done \in BOOLEAN :
        /\ WriteWire("mode", mode[mode_text], kind, done)
        /\ \E r \in {write_object_by_name("mode", mode[mode_text], kind, strict)} :
            IF r.exc # "" THEN Raised(r.exc)
            ELSE /\ mode_pc' = "read"
                 /\ UNCHANGED <<outcome, ret, control_pc, home_pc>>
    /\ UNCHANGED <<api, ctlLocals, modeLocals, homeLocals, codecVars, crcVars, txnVars>>

\* set_mode_of_operation: read_mode = self.read_object_by_name('mode_display')
\* and the comparison
SetModeRead ==
    /\ mode_pc = "read"
    /\ \E kind \in ReadKinds :
        /\ ReadWire("mode_display", kind)
        /\ \E r \in {read_object_by_name("mode_display", drive, kind, strict)} :
            /\ read_mode' = r
            /\ IF r.exc # "" THEN Raised(r.exc)
               ELSE SetModeReturns(Ret(mode_confirmed(r, mode_text)))
    /\ UNCHANGED <<api, mode_text, ctlLocals, homeLocals, codecVars, crcVars, txnVars>>

\* home: self.set_mode_of_operation('HMM'), the result dropped
HomeSetMode ==
    /\ home_pc = "set_mode"
    /\ mode_pc' = "write"
    /\ mode_text' = "HMM"
    /\ read_mode' = Unbound
    /\ home_pc' = CASE api.arg = "in_place" -> "homing_method"
                    [] api.arg = "crash" -> "crash_method"
                    [] OTHER -> "unsupported"
    /\ UNCHANGED <<api, outcome, ret, control_pc, ctlLocals, homeLocals,
                   drive, wireLog, faults, codecVars, crcVars, txnVars>>

\* home('in_place'): result = self.write_object_by_name('homing_method', 37)
HomeWriteMethod ==
    /\ home_pc = "homing_method"
    /\ ~InSetMode
    /\ \E kind \in WriteKinds, done \in BOOLEAN :
        /\ WriteWire("homing_method", 37, kind, done)
        /\ \E r \in {write_object_by_name("homing_method", 37, kind, strict)} :
            IF r.exc # "" THEN Raised(r.exc) /\ comms' = comms
            ELSE /\ comms' = <<r>>
                 /\ home_pc' = "homing_start"
                 /\ UNCHANGED <<outcome, ret, control_pc, mode_pc>>
    /\ UNCHANGED <<api, ctlLocals, modeLocals, pos, codecVars, crcVars, txnVars>>

\* home('in_place'): self.set_control('homing_start'), and once it has
\* returned self.set_control('clear_homing_start'); each result into comms
HomeSetControl ==
    /\ home_pc \in {"homing_start", "clear_homing_start"}
    /\ ~InSetControl
    /\ comms' = IF home_pc = "clear_homing_start" THEN Append(comms, ret) ELSE comms
    /\ command_text' = home_pc
    /\ control_pc' = "get_control"
    /\ existing' = Unbound
    /\ current_mode' = Unbound
    /\ home_pc' = IF home_pc = "homing_start" THEN "clear_homing_start" ELSE "check"
    /\ UNCHANGED <<api, outcome, ret, mode_pc, modeLocals, pos,
                   drive, wireLog, faults, codecVars, crcVars, txnVars>>

\* home('in_place'): if all(comms), pos = self.get_actual_position() and the
\* comparison with 0; else False
HomeCheck ==
    /\ home_pc = "check"
    /\ ~InSetControl
    /\ comms' = Append(comms, ret)
    /\ IF all(comms')
       THEN \E kind \in ReadKinds :
            /\ ReadWire("actual_position", kind)
            /\ \E r \in {read_object_by_name("actual_position", drive, kind, strict)} :
                /\ pos' = r
                /\ IF r.exc # "" THEN Raised(r.exc)
                   ELSE /\ outcome' = Ret(home_result(comms', r))
                        /\ home_pc' = "returned"
                        /\ UNCHANGED <<ret, control_pc, mode_pc>>
       ELSE /\ outcome' = Ret(FALSE)
            /\ home_pc' = "returned"
            /\ UNCHANGED <<ret, control_pc, mode_pc, pos, drive, wireLog, faults>>
    /\ UNCHANGED <<api, ctlLocals, modeLocals, codecVars, crcVars, txnVars>>

\* home('crash'): the writes of homing_method, homing_current_limit and
\* homing_speed_switch, the results dropped
HomeCrashWrite ==
    /\ home_pc \in {"crash_method", "crash_current", "crash_speed"}
    /\ ~InSetMode
    /\ \E kind \in WriteKinds, done \in BOOLEAN :
        \E w \in {CASE home_pc = "crash_method" -> <<"homing_method", -3, "crash_current">>
                    [] home_pc = "crash_current" -> <<"homing_current_limit", 1000, "crash_speed">>
                    [] home_pc = "crash_speed" -> <<"homing_speed_switch", 300, "start">>} :
            /\ WriteWire(w[1], w[2], kind, done)
            /\ \E r \in {write_object_by_name(w[1], w[2], kind, strict)} :
                IF r.exc # "" THEN Raised(r.exc)
                ELSE /\ home_pc' = w[3]
                     /\ UNCHANGED <<outcome, ret, control_pc, mode_pc>>
    /\ UNCHANGED <<api, ctlLocals, modeLocals, homeLocals, codecVars, crcVars, txnVars>>

\* home('crash'): set_control('start'), set_control('clear_homing_start'),
\* set_control('homing_start'), the results dropped
HomeCrashControl ==
    /\ home_pc \in {"start", "crash_clear", "crash_homing"}
    /\ ~InSetControl
    /\ command_text' = CASE home_pc = "start" -> "start"
                         [] home_pc = "crash_clear" -> "clear_homing_start"
                         [] home_pc = "crash_homing" -> "homing_start"
    /\ control_pc' = "get_control"
    /\ home_pc' = CASE home_pc = "start" -> "crash_clear"
                    [] home_pc = "crash_clear" -> "crash_homing"
                    [] home_pc = "crash_homing" -> "crash_end"
    /\ existing' = Unbound
    /\ current_mode' = Unbound
    /\ UNCHANGED <<api, outcome, ret, mode_pc, modeLocals,
                   homeLocals, drive, wireLog, faults, codecVars, crcVars, txnVars>>

\* home: the end of the 'crash' branch (no return statement: None) and the
\* else branch (False)
HomeReturn ==
    /\ home_pc \in {"crash_end", "unsupported"}
    /\ ~InSetControl
    /\ ~InSetMode
    /\ outcome' = IF home_pc = "crash_end" THEN RetNoneBool ELSE Ret(FALSE)
    /\ home_pc' = "returned"
    /\ UNCHANGED <<api, ret, control_pc, mode_pc, ctlLocals, modeLocals, homeLocals,
                   drive, wireLog, faults, codecVars, crcVars, txnVars>>

Next ==
    \/ SetControlGetControl
    \/ SetControlReadMode
    \/ SetControlWrite
    \/ SetModeWrite
    \/ SetModeRead
    \/ HomeSetMode
    \/ HomeWriteMethod
    \/ HomeSetControl
    \/ HomeCheck
    \/ HomeCrashWrite
    \/ HomeCrashControl
    \/ HomeReturn

Spec == Init /\ [][Next]_vars

----------------------------------------------------------------------------
(* SpecMove: move_with_velocity and move_to_position, one transaction or   *)
(* one call per step, on the sequencer's variables.                        *)

\* move_with_velocity(500), move_to_position(2000, immediate=True) and
\* move_to_position(2000) with the default velocity, accel and immediate
MoveCalls ==
    {[fn |-> "move_with_velocity", arg |-> "rpm"],
     [fn |-> "move_to_position", arg |-> "immediate"],
     [fn |-> "move_to_position", arg |-> "after_current"]}

\* the first statement of a primitive
move_first(fn) == IF fn = "move_with_velocity" THEN "pvm" ELSE "ppm"

\* a changed statement order: the set-point is latched before the target
\* position is written
move_next_latch_first(pc, arg) ==
    CASE pc = "pvm" -> "target_velocity"
      [] pc = "target_velocity" -> "pvm_start"
      [] pc = "pvm_start" -> "end"
      [] pc = "ppm" -> "profile_velocity"
      [] pc = "profile_velocity" -> "profile_acceleration"
      [] pc = "profile_acceleration" -> "profile_deceleration"
      [] pc = "profile_deceleration" -> "absolute"
      [] pc = "absolute" -> IF arg = "immediate" THEN "move_immediate"
                            ELSE "move_after_current"
      [] pc \in {"move_immediate", "move_after_current"} -> "ppm_start"
      [] pc = "ppm_start" -> "new_setpoint"
      [] pc = "new_setpoint" -> "target_position"
      [] pc = "target_position" -> "clear_new_setpoint"
      [] pc = "clear_new_setpoint" -> "end"

\* the statement after pc, in the order the two bodies are written
move_next(pc, arg) ==
    CASE pc = "pvm" -> "target_velocity"
      [] pc = "target_velocity" -> "pvm_start"
      [] pc = "pvm_start" -> "end"
      [] pc = "ppm" -> "profile_velocity"
      [] pc = "profile_velocity" -> "profile_acceleration"
      [] pc = "profile_acceleration" -> "profile_deceleration"
      [] pc = "profile_deceleration" -> "target_position"
      [] pc = "target_position" -> "absolute"
      [] pc = "absolute" -> IF arg = "immediate" THEN "move_immediate"
                            ELSE "move_after_current"
      [] pc \in {"move_immediate", "move_after_current"} -> "ppm_start"
      [] pc = "ppm_start" -> "new_setpoint"
      [] pc = "new_setpoint" -> "clear_new_setpoint"
      [] pc = "clear_new_setpoint" -> "end"

\* the statements that are one write_object_by_name, and what they write:
\* rpm, velocity, accel, accel and counts
MoveWrites == {"target_velocity", "profile_velocity", "profile_acceleration",
               "profile_deceleration", "target_position"}

move_data(pc) ==
    CASE pc = "target_velocity" -> 500
      [] pc = "profile_velocity" -> 1000
      [] pc = "profile_acceleration" -> 10000
      [] pc = "profile_deceleration" -> 10000
      [] pc = "target_position" -> 2000

\* the statements that are one set_control, and the command they pass
MoveControls == {"pvm_start", "absolute", "move_immediate", "move_after_current",
                 "ppm_start", "new_setpoint", "clear_new_setpoint"}

move_command(pc) == IF pc \in {"pvm_start", "ppm_start"} THEN "start" ELSE pc

InitMove ==
    /\ strict \in BOOLEAN
    /\ TxnIdle
    /\ CodecOff
    /\ CrcOff
    /\ api \in MoveCalls
    /\ drive \in [control : {\HA55A}, mode_display : {mode.PPM, mode.PVM}, position : {1000}]
    /\ wireLog = <<>>
    /\ faults = 0
    /\ outcome = RetNoneBool
    /\ ret = RetNoneBool
    /\ control_pc = "idle"
    /\ command_text = ""
    /\ existing = Unbound
    /\ current_mode = Unbound
    /\ mode_pc = "idle"
    /\ mode_text = ""
    /\ read_mode = Unbound
    /\ home_pc = move_first(api.fn)
    /\ comms = <<>>
    /\ pos = Unbound

\* self.set_mode_of_operation('PVM') / ('PPM'), the result dropped
MoveSetMode ==
    /\ home_pc \in {"pvm", "ppm"}
    /\ mode_pc' = "write"
    /\ mode_text' = IF home_pc = "pvm" THEN "PVM" ELSE "PPM"
    /\ read_mode' = Unbound
    /\ home_pc' = move_next(home_pc, api.arg)
    /\ UNCHANGED <<api, outcome, ret, control_pc, ctlLocals, homeLocals,
                   drive, wireLog, faults, codecVars, crcVars, txnVars>>

\* self.set_target_velocity(rpm), self.set_profile_velocity(velocity),
\* self.set_profile_acceleration(accel), self.set_profile_deceleration(accel),
\* self.set_target_position(counts): one write each, the result dropped
MoveWrite ==
    /\ home_pc \in MoveWrites
    /\ ~InSetMode
    /\ ~InSetControl
    /\ \E kind \in WriteKinds, done \in BOOLEAN :
        /\ WriteWire(home_pc, move_data(home_pc), kind, done)
        /\ \E r \in {write_object_by_name(home_pc, move_data(home_pc), kind, strict)} :
            IF r.exc # "" THEN Raised(r.exc)
            ELSE /\ home_pc' = move_next(home_pc, api.arg)
                 /\ ret' = r
                 /\ UNCHANGED <<outcome, control_pc, mode_pc>>
    /\ UNCHANGED <<api, ctlLocals, modeLocals, homeLocals, codecVars, crcVars, txnVars>>

\* self.set_control(...) of the two bodies, the result dropped
MoveSetControl ==
    /\ home_pc \in MoveControls
    /\ ~InSetMode
    /\ ~InSetControl
    /\ command_text' = move_command(home_pc)
    /\ control_pc' = "get_control"
    /\ existing' = Unbound
    /\ current_mode' = Unbound
    /\ home_pc' = move_next(home_pc, api.arg)
    /\ UNCHANGED <<api, outcome, ret, mode_pc, modeLocals, homeLocals,
                   drive, wireLog, faults, codecVars, crcVars, txnVars>>

\* the end of either body: no return statement, the caller gets None
MoveReturn ==
    /\ home_pc = "end"
    /\ ~InSetMode
    /\ ~InSetControl
    /\ outcome' = RetNoneBool
    /\ home_pc' = "returned"
    /\ UNCHANGED <<api, ret, control_pc, mode_pc, ctlLocals, modeLocals, homeLocals,
                   drive, wireLog, faults, codecVars, crcVars, txnVars>>

NextMove ==
    \/ MoveSetMode
    \/ MoveWrite
    \/ MoveSetControl
    \/ MoveReturn
    \/ SetModeWrite
    \/ SetModeRead
    \/ SetControlGetControl
    \/ SetControlReadMode
    \/ SetControlWrite

SpecMove == InitMove /\ [][NextMove]_vars

----------------------------------------------------------------------------
(* SpecKeys: the calls that look a name up in a table of the object -      *)
(* read_object_by_name, write_object_by_name and set_control - with a name *)
(* that is in the table and with one that is not.                          *)

KeyCalls ==
    {[fn |-> "read_object_by_name", arg |-> n] : n \in {"status", "no_such_object"}}
    \cup {[fn |-> "write_object_by_name", arg |-> n] : n \in {"target_velocity", "no_such_object"}}
    \cup {[fn |-> "set_control", arg |-> c] : c \in {"shutdown", "homing_start", "no_such_command"}}

InitKeys ==
    /\ strict \in BOOLEAN
    /\ TxnIdle
    /\ CodecOff
    /\ CrcOff
    /\ api \in KeyCalls
    /\ drive \in [control : ControlValues, mode_display : ModeValues, position : {1000}]
    /\ wireLog = <<>>
    /\ faults = 0
    /\ outcome = RetNoneBool
    /\ ret = RetNoneBool
    /\ control_pc = IF api.fn = "set_control" THEN "get_control" ELSE "idle"
    /\ command_text = IF api.fn = "set_control" THEN api.arg ELSE ""
    /\ existing = Unbound
    /\ current_mode = Unbound
    /\ mode_pc = "idle"
    /\ mode_text = ""
    /\ read_mode = Unbound
    /\ home_pc = IF api.fn = "set_control" THEN "idle" ELSE "by_name"
    /\ comms = <<>>
    /\ pos = Unbound

\* read_object_by_name(object_name): the assert on the name, then the read
ReadObjectByName ==
    /\ api.fn = "read_object_by_name"
    /\ home_pc = "by_name"
    /\ IF api.arg \notin DOMAIN objects
       THEN /\ outcome' = RaiseInt("AssertionError")
            /\ home_pc' = "raised"
            /\ UNCHANGED <<drive, wireLog, faults>>
       ELSE \E kind \in ReadKinds :
            /\ ReadWire(api.arg, kind)
            /\ \E r \in {read_object_by_name(api.arg, drive, kind, strict)} :
                /\ outcome' = r
                /\ home_pc' = IF r.exc # "" THEN "raised" ELSE "returned"
    /\ UNCHANGED <<api, ret, control_pc, mode_pc, ctlLocals, modeLocals, homeLocals,
                   codecVars, crcVars, txnVars>>

\* write_object_by_name(object_name, 500): the assert on the name, then the
\* write
WriteObjectByName ==
    /\ api.fn = "write_object_by_name"
    /\ home_pc = "by_name"
    /\ IF api.arg \notin DOMAIN objects
       THEN /\ outcome' = RaiseBool("AssertionError")
            /\ home_pc' = "raised"
            /\ UNCHANGED <<drive, wireLog, faults>>
       ELSE \E kind \in WriteKinds, done \in BOOLEAN :
            /\ WriteWire(api.arg, 500, kind, done)
            /\ \E r \in {write_object_by_name(api.arg, 500, kind, strict)} :
                /\ outcome' = r
                /\ home_pc' = IF r.exc # "" THEN "raised" ELSE "returned"
    /\ UNCHANGED <<api, ret, control_pc, mode_pc, ctlLocals, modeLocals, homeLocals,
                   codecVars, crcVars, txnVars>>

NextKeys ==
    \/ ReadObjectByName
    \/ WriteObjectByName
    \/ SetControlGetControl
    \/ SetControlReadMode
    \/ SetControlWrite

SpecKeys == InitKeys /\ [][NextKeys]_vars

----------------------------------------------------------------------------
(* SpecOps: every operation that ends in set_control - set_control itself, *)
(* initialise, enable, disable, reset_fault, stop, home, move_with_velocity *)
(* and move_to_position.                                                   *)

WrapperCalls ==
    {[fn |-> f, arg |-> ""] : f \in {"initialise", "enable", "disable", "reset_fault", "stop"}}

\* the commands a wrapper passes to set_control, in order
wrapper_commands(fn) ==
    CASE fn = "initialise" -> <<"shutdown", "switch_on">>
      [] fn = "enable" -> <<"enable_operation">>
      [] fn = "disable" -> <<"disable_operation">>
      [] fn = "reset_fault" -> <<"fault_low", "fault_high">>
      [] fn = "stop" -> <<"stop">>

InitWrapper ==
    /\ strict \in BOOLEAN
    /\ TxnIdle
    /\ CodecOff
    /\ CrcOff
    /\ api \in WrapperCalls
    /\ drive \in [control : ControlValues, mode_display : ModeValues, position : {1000}]
    /\ wireLog = <<>>
    /\ faults = 0
    /\ outcome = RetNoneBool
    /\ ret = RetNoneBool
    /\ control_pc = "idle"
    /\ command_text = ""
    /\ existing = Unbound
    /\ current_mode = Unbound
    /\ mode_pc = "idle"
    /\ mode_text = ""
    /\ read_mode = Unbound
    /\ home_pc = "first"
    /\ comms = <<>>
    /\ pos = Unbound

\* self.set_control(...) of a wrapper, the result dropped
WrapperSetControl ==
    /\ home_pc \in {"first", "second"}
    /\ ~InSetControl
    /\ \E n \in {IF home_pc = "first" THEN 1 ELSE 2} :
        /\ command_text' = wrapper_commands(api.fn)[n]
        /\ home_pc' = IF n < Len(wrapper_commands(api.fn)) THEN "second" ELSE "last"
    /\ control_pc' = "get_control"
    /\ existing' = Unbound
    /\ current_mode' = Unbound
    /\ UNCHANGED <<api, outcome, ret, mode_pc, modeLocals, homeLocals,
                   drive, wireLog, faults, codecVars, crcVars, txnVars>>

\* the end of a wrapper: no return statement, the caller gets None
WrapperReturn ==
    /\ home_pc = "last"
    /\ ~InSetControl
    /\ outcome' = RetNoneBool
    /\ home_pc' = "returned"
    /\ UNCHANGED <<api, ret, control_pc, mode_pc, ctlLocals, modeLocals, homeLocals,
                   drive, wireLog, faults, codecVars, crcVars, txnVars>>

InitOps == Init \/ InitMove \/ InitWrapper

NextOps == Next \/ NextMove \/ WrapperSetControl \/ WrapperReturn

SpecOps == InitOps /\ [][NextOps]_vars

----------------------------------------------------------------------------
(* C1: for every byte string p, byte_unstuff(byte_stuff(p)) returns exactly *)
(* p and never the framing failure None.                                    *)
C1_RoundTrip == cpc = "round" => unstuffed = Some(payload)

\* a round trip of a payload with adjacent escapes and an escape at both ends
C1_Witness ==
    /\ cpc = "round"
    /\ Len(payload) >= 4
    /\ payload[1] = DLE /\ payload[2] = DLE /\ payload[3] # DLE
    /\ payload[Len(payload)] = DLE
    /\ unstuffed = Some(payload)

\* the maximal run of DLE bytes of ba that starts at i has odd length
RECURSIVE RunLen(_, _)
RunLen(ba, i) == IF i > Len(ba) \/ ba[i] # DLE THEN 0 ELSE 1 + RunLen(ba, i + 1)

HasOddRun(ba) ==
    \E i \in 1..Len(ba) :
        /\ ba[i] = DLE
        /\ (i = 1 \/ ba[i - 1] # DLE)
        /\ RunLen(ba, i) % 2 = 1

HasPreamble(ba) == Len(ba) >= 2 /\ ba[1] = DLE /\ ba[2] = STX

(* C2: byte_unstuff returns None for every input that does not begin with   *)
(* 0x90 0x02, and for every input whose part after the preamble holds a run *)
(* of 0x90 bytes of odd length.                                             *)
C2_Rejects ==
    (cpc = "raw" /\ (~HasPreamble(payload) \/ HasOddRun(Tail(Tail(payload)))))
        => unstuffed = NoneBytes

\* a frame with the preamble, an even run and then an odd run, rejected
C2_Witness ==
    /\ cpc = "raw"
    /\ payload = <<DLE, STX, DLE, DLE, 65, DLE>>
    /\ unstuffed = NoneBytes

(* C3: for every even-length d ending in two zero bytes,                    *)
(* crc_match(d[:-2] + calc_crc(d)) is true, and with any single bit of that *)
(* frame inverted crc_match is false.                                       *)
C3_CrcSelfConsistent ==
    /\ kpc = "checked" => crcOk = TRUE
    /\ kpc = "flipchecked" => crcOk = FALSE

\* the top bit of the data word 0x..90 was inverted and the frame rejected
C3_Witness ==
    /\ kpc = "flipchecked"
    /\ Len(sealed) = 4
    /\ flippedBit = 15
    /\ crcData[1] = DLE
    /\ crcOk = FALSE

\* the call waits for a reply: read_object always, write_object after a
\* complete write
Waits == call.op = "read" \/ pending

(* C6: with a transport that never produces a byte, every read and every    *)
(* write transaction returns to its caller, with the failure value (None    *)
(* for a read, False for a write) and never a value or success; a call that *)
(* waits for the reply returns when the clock has advanced by TIMEOUT_MS    *)
(* since the wait began, not before and not after the sleep that reaches it.*)
C6_Timeout ==
    /\ [](tpc = "done" =>
            /\ call.op = "read" => result = RetNoneInt
            /\ call.op = "write" => result = Ret(FALSE)
            /\ Waits => (elapsed >= TIMEOUT_MS /\ elapsed < TIMEOUT_MS + TickMs))
    /\ [](tpc \in {"wait", "sleep"} => elapsed < TIMEOUT_MS)
    /\ <>(tpc = "done")

\* a write whose request went out whole has timed out
C6_Witness ==
    /\ tpc = "done"
    /\ call.op = "write"
    /\ pending
    /\ elapsed >= TIMEOUT_MS
    /\ result = Ret(FALSE)

\* the body of a read response that holds v in a data field of fmt's width
ExactBody(fmt, v) == <<0, 4, 0, 0, 0, 0>> \o pack(v, calcsize(fmt))

ReplyCrcValid == reply.kind \notin {"none", "badcrc", "noframe", "odd", "tiny"}

(* C8: write_object returns success if and only if the CRC-valid response   *)
(* body is exactly opcode 0, length 2, error code 0; every other CRC-valid  *)
(* response body makes it return failure.                                   *)
C8_WriteSuccessIffAck ==
    (tpc = "done" /\ call.op = "write" /\ ReplyCrcValid)
        => result = Ret(reply.body = <<0, 2, 0, 0>>)



\* the latest request the drive has read, and bit i of a word
Last(log) == log[Len(log)]
Bit(x, i) == (x \div (2 ^ i)) % 2
IsControlWrite(e) == e.op = "write" /\ e.name = "control"
IsRead(e, name) == e.op = "read" /\ e.name = name

\* the places in the log of the reads of an object
ReadsOf(name) == {p \in 1..Len(wireLog) : IsRead(wireLog[p], name)}

\* set_control has read mode_display and the read returned (a value or None)
ModeReadReturned == current_mode.exc = ""

\* the place in the log of the latest read of mode_display: once
\* ModeReadReturned, the read of the latest set_control call
ModeReadAt == CHOOSE p \in ReadsOf("mode_display") : \A q \in ReadsOf("mode_display") : q <= p

\* the latest set_control call has put its control write on the wire
ControlWritten ==
    /\ ModeReadReturned
    /\ Len(wireLog) > ModeReadAt
    /\ IsControlWrite(wireLog[ModeReadAt + 1])

(* C4: every control write on the wire follows a read of control and a read *)
(* of mode_display; in the control write of a set_control call every bit is *)
(* the command's bit where the command's mask has a 1 and the bit of        *)
(* existing where the mask has a 0, and existing is the control word the    *)
(* drive held when the call read it.                                        *)
C4_MaskedPatch ==
    /\ control_pc \in {"read_mode", "write"} => existing = Ret(drive.control)
    /\ \A p \in 1..Len(wireLog) :
          IsControlWrite(wireLog[p]) =>
             /\ p >= 3
             /\ IsRead(wireLog[p - 2], "control")
             /\ IsRead(wireLog[p - 1], "mode_display")
    /\ ControlWritten =>
          /\ existing.exc = "" /\ ~existing.none
          /\ wireLog[ModeReadAt + 1].data >= 0
          /\ \A i \in 0..30 :
                Bit(wireLog[ModeReadAt + 1].data, i) =
                   IF Bit(control[command_text][1], i) = 1
                   THEN Bit(control[command_text][2], i)
                   ELSE Bit(existing.val, i)

\* switch_on_and_enable on a control word 0xA55A: 0xA55F goes on the wire
C4_Witness ==
    /\ ControlWritten
    /\ command_text = "switch_on_and_enable"
    /\ existing = Ret(\HA55A)
    /\ wireLog[ModeReadAt + 1].data = \HA55F

(* C5: once set_control has read mode_display: for a command that names a   *)
(* mode, a reported mode other than that mode's wire value ends the call    *)
(* with an AssertionError and no control write follows the read; a reported *)
(* mode equal to it takes the call to the control write.  A command marked  *)
(* ANY is taken to the control write whatever the read returned.  A         *)
(* reported mode is the mode the drive holds.                               *)
C5_ModeScoped ==
    ModeReadReturned =>
        /\ ~current_mode.none => current_mode.val = drive.mode_display
        /\ IF control[command_text][3] # "ANY"
              /\ current_mode # Ret(mode[control[command_text][3]])
           THEN /\ control_pc = "raised"
                /\ outcome = RaiseBool("AssertionError")
                /\ Len(wireLog) = ModeReadAt
           ELSE control_pc = "write" \/ ControlWritten

\* homing_start while the drive reports PPM: refused, nothing written
C5_Witness ==
    /\ command_text = "homing_start"
    /\ current_mode = Ret(mode.PPM)
    /\ control_pc = "raised"
    /\ outcome = RaiseBool("AssertionError")
    /\ IsRead(Last(wireLog), "mode_display")

(* C9: in home('in_place') every read of actual_position comes after a      *)
(* write of 37 to homing_method, a later control write with the             *)
(* homing_start bit set and a still later one with the bit clear; the call  *)
(* returns True exactly when the three writes returned True and the         *)
(* position read returned 0, which is then the position the drive holds;    *)
(* it returns False when the position read returned another value.          *)
C9_HomeInPlace ==
    api = [fn |-> "home", arg |-> "in_place"] =>
        /\ \A p \in ReadsOf("actual_position") :
              \E i, j, k \in 1..p :
                 /\ i < j /\ j < k /\ k < p
                 /\ wireLog[i] = [op |-> "write", name |-> "homing_method", data |-> 37]
                 /\ IsControlWrite(wireLog[j]) /\ Bit(wireLog[j].data, 4) = 1
                 /\ IsControlWrite(wireLog[k]) /\ Bit(wireLog[k].data, 4) = 0
        /\ home_pc = "returned" =>
              /\ outcome \in {Ret(TRUE), Ret(FALSE)}
              /\ outcome = Ret(TRUE) <=>
                    /\ comms = <<Ret(TRUE), Ret(TRUE), Ret(TRUE)>>
                    /\ ReadsOf("actual_position") # {}
                    /\ pos = Ret(0)
              /\ outcome = Ret(TRUE) => drive.position = 0
              /\ (pos.exc = "" /\ ~pos.none /\ pos.val # 0) => outcome = Ret(FALSE)

\* a complete homing run: ten requests, the position read last and 0
C9_Witness ==
    /\ api = [fn |-> "home", arg |-> "in_place"]
    /\ home_pc = "returned"
    /\ outcome = Ret(TRUE)
    /\ pos = Ret(0)
    /\ Len(wireLog) = 10
    /\ IsRead(Last(wireLog), "actual_position")

(* C10: in set_mode_of_operation every read of mode_display comes after the *)
(* write of the requested mode's wire value to the mode object; the call    *)
(* returns True exactly when that read returned the wire value, which is    *)
(* then the mode the drive holds, and False when the read returned another  *)
(* value or None.                                                           *)
C10_ModeConfirmed ==
    api.fn = "set_mode_of_operation" =>
        /\ \A p \in ReadsOf("mode_display") :
              /\ p = 2
              /\ wireLog[1] = [op |-> "write", name |-> "mode", data |-> mode[mode_text]]
        /\ mode_pc = "returned" =>
              /\ ReadsOf("mode_display") = {2}
              /\ outcome \in {Ret(TRUE), Ret(FALSE)}
              /\ outcome = Ret(TRUE) <=> read_mode = Ret(mode[mode_text])
              /\ outcome = Ret(TRUE) => drive.mode_display = mode[mode_text]

\* CSP asked of a drive in another mode, taken and confirmed
C10_Witness ==
    /\ api = [fn |-> "set_mode_of_operation", arg |-> "CSP"]
    /\ mode_pc = "returned"
    /\ outcome = Ret(TRUE)
    /\ read_mode = Ret(mode.CSP)
    /\ wireLog = <<[op |-> "write", name |-> "mode", data |-> mode.CSP],
                   [op |-> "read", name |-> "mode_display", data |-> 0]>>

----------------------------------------------------------------------------
(* C11: in every run of move_to_position the requests reach the wire in    *)
(* the order of the body: the PPM mode write and its read-back, the writes *)
(* of profile velocity, acceleration and deceleration, the target          *)
(* position, then the control accesses of 'absolute', of 'move_immediate'  *)
(* or 'move_after_current', of 'start', of 'new_setpoint' and of           *)
(* 'clear_new_setpoint'. The control write that sets the new_setpoint bit  *)
(* comes after the target-position write and before the clearing call.     *)

\* the statement of move_to_position a transaction belongs to
MoveStatement ==
    IF InSetMode THEN "ppm" ELSE IF InSetControl THEN command_text ELSE home_pc

\* the order as the claim lists it
MoveRank(stmt) ==
    CASE stmt = "ppm" -> 1
      [] stmt = "profile_velocity" -> 2
      [] stmt = "profile_acceleration" -> 3
      [] stmt = "profile_deceleration" -> 4
      [] stmt = "target_position" -> 5
      [] stmt = "absolute" -> 6
      [] stmt \in {"move_immediate", "move_after_current"} -> 7
      [] stmt = "start" -> 8
      [] stmt = "new_setpoint" -> 9
      [] stmt = "clear_new_setpoint" -> 10

\* the object a statement before the control commands writes
MoveObject(rank) ==
    CASE rank = 1 -> "mode"
      [] rank = 2 -> "profile_velocity"
      [] rank = 3 -> "profile_acceleration"
      [] rank = 4 -> "profile_deceleration"
      [] rank = 5 -> "target_position"

Wrote(log, name) == \E i \in DOMAIN log : log[i].op = "write" /\ log[i].name = name

ControlWrites(log) == {i \in DOMAIN log : IsControlWrite(log[i])}

\* a request of statement stmt arrives on a wire that has carried log: every
\* earlier object has been written, nothing of a later statement is there
InMoveOrder(log, e, stmt) ==
    LET rank == MoveRank(stmt)
    IN /\ \A r \in 1..5 : r < rank => Wrote(log, MoveObject(r))
       /\ \A r \in 1..5 : r > rank => ~Wrote(log, MoveObject(r))
       /\ rank = 1 => \/ e.op = "write" /\ e.name = "mode" /\ e.data = mode.PPM /\ log = <<>>
                      \/ e.op = "read" /\ e.name = "mode_display" /\ Len(log) = 1
       /\ rank \in 2..5 => /\ e.op = "write"
                           /\ e.name = MoveObject(rank)
                           /\ ~Wrote(log, e.name)
                           /\ ControlWrites(log) = {}
                           /\ \A i \in DOMAIN log : ~IsRead(log[i], "control")
       /\ rank \in 6..10 => /\ e.name \in {"control", "mode_display"}
                            /\ Cardinality(ControlWrites(log)) <= rank - 6
                            /\ IsControlWrite(e) =>
                                 BitAnd(e.data, control[stmt][1])
                                   = BitAnd(control[stmt][2], control[stmt][1])

C11_MoveOrder ==
    [][(api.fn = "move_to_position" /\ Len(wireLog') = Len(wireLog) + 1)
        => /\ InMoveOrder(wireLog, Last(wireLog'), MoveStatement)
           /\ (IsControlWrite(Last(wireLog')) /\ command_text = "new_setpoint")
                => /\ Wrote(wireLog, "target_position")
                   /\ home_pc = "clear_new_setpoint"
           /\ (IsControlWrite(Last(wireLog')) /\ command_text = "clear_new_setpoint")
                => home_pc = "end"]_vars

\* a complete run: all 21 requests, the last control write clearing the bit
\* that the one before it set
C11_Witness ==
    /\ api.fn = "move_to_position"
    /\ home_pc = "returned"
    /\ Len(wireLog) = 21
    /\ IsControlWrite(wireLog[18]) /\ Bit(wireLog[18].data, 4) = 1
    /\ IsControlWrite(wireLog[21]) /\ Bit(wireLog[21].data, 4) = 0
    /\ Wrote(SubSeq(wireLog, 1, 6), "target_position")

----------------------------------------------------------------------------
(* C12: when a step of move_with_velocity, move_to_position or home has    *)
(* failed (the drive refused a write, or left a request unanswered), the   *)
(* primitive returns a failure to its caller: never None, never True.      *)

\* a drive reply that makes the transaction it answers fail has been consumed
StepFailed == faults > 0

C12_ReportsFailure ==
    (api.fn \in Sequencers /\ home_pc = "returned" /\ StepFailed)
        => outcome = Ret(FALSE)

----------------------------------------------------------------------------
(* C13: a call with a name that is not in its table - an object name for   *)
(* read_object_by_name / write_object_by_name, a command name for          *)
(* set_control - puts no request on the wire, and ends with the failed     *)
(* assertion.                                                              *)

UnknownKey ==
    \/ api.fn \in {"read_object_by_name", "write_object_by_name"}
        /\ api.arg \notin DOMAIN objects
    \/ api.fn = "set_control" /\ api.arg \notin DOMAIN control

CallEnded ==
    \/ home_pc \in {"returned", "raised"}
    \/ control_pc \in {"returned", "raised"}

C13_UnknownKeyWritesNothing ==
    UnknownKey => /\ wireLog = <<>>
                  /\ CallEnded => outcome.exc = "AssertionError"

----------------------------------------------------------------------------
(* C14: a call of read_object or write_object hands exactly one request    *)
(* frame to the transport, the frame of that call, however the call ends:  *)
(* with a value, a timeout, a framing, checksum or protocol failure.       *)

C14_OneRequestPerCall ==
    /\ Len(writes) <= 1
    /\ tpc # "send" => /\ Len(writes) = 1
                       /\ Slice(writes[1], 0, Len(sent)) = sent
                       /\ Len(writes[1]) >= 10

\* a call that has ended in the timeout, and one that has ended after a reply
\* with a wrong CRC: one request each
C14_Witness ==
    /\ tpc = "done"
    /\ Len(writes) = 1
    /\ \/ reply = NoReply /\ pending /\ elapsed >= TIMEOUT_MS
       \/ reply.kind = "badcrc" /\ rxData = reply.bytes

----------------------------------------------------------------------------
(* C15: every byte string handed to the transport is a well-formed request *)
(* frame: it starts with 0x90 0x02 and unstuffs to the 8 bytes of a read   *)
(* request [0x60, 2, node, indexLo, indexHi, subindex, crcLo, crcHi] or to *)
(* the 12 bytes of a write request [0x68, 4, node, indexLo, indexHi,       *)
(* subindex, the value as 4 little-endian bytes of a signed 32-bit         *)
(* integer, crcLo, crcHi], whatever format the object declares; the CRC    *)
(* bytes are the CRC of the body with a zero placeholder, so crc_match     *)
(* holds on the frame.                                                     *)

\* byte i (0 the lowest) of v as a signed 32-bit integer
ByteOf(v, i) == (v \div (256 ^ i)) % 256

RequestHead(c) ==
    <<IF c.op = "read" THEN \H60 ELSE \H68, IF c.op = "read" THEN 2 ELSE 4, NODE_ID,
      objects[c.name][1] % 256, objects[c.name][1] \div 256, objects[c.name][2]>>

WellFormedRequest(f, c) ==
    /\ Len(f) >= 2 /\ f[1] = \H90 /\ f[2] = \H02
    /\ ~byte_unstuff(f).none
    /\ LET b == byte_unstuff(f).val
       IN /\ Len(b) = IF c.op = "read" THEN 8 ELSE 12
          /\ Slice(b, 0, 6) = RequestHead(c)
          /\ c.op = "write" => Slice(b, 6, 10) = <<ByteOf(c.data, 0), ByteOf(c.data, 1),
                                                   ByteOf(c.data, 2), ByteOf(c.data, 3)>>
          /\ TakeLast(b, 2) = calc_crc(DropLast(b, 2) \o <<0, 0>>)
          /\ ~crc_match_raises(b)
          /\ crc_match(b)

C15_WellFormedRequests ==
    [][writes' # writes =>
        /\ writes' = Append(writes, Last(writes'))
        /\ WellFormedRequest(Last(writes'), call)]_vars

\* a negative value written to an object declared as unsigned 16 bits, and a
\* value that needs an escape in the frame
C15_Witness ==
    /\ writes # <<>>
    /\ call.op = "write"
    /\ \/ call.data = -3 /\ objects[call.name][3] = "H"
       \/ call.data = DLE /\ Len(writes[1]) > 14

----------------------------------------------------------------------------
(* C16: whatever bytes arrive as the reply - without the preamble, with a  *)
(* wrong CRC, unstuffing to an odd number of bytes or to fewer than two -  *)
(* the transaction returns its failure value (None from read_object, False *)
(* from write_object); no reply makes the call end in an exception.        *)

MalformedReply ==
    /\ reply.kind \in {"noframe", "badcrc", "odd", "tiny"}
    /\ rxData = reply.bytes

C16_MalformedReplyFails ==
    (tpc = "done" /\ MalformedReply)
        => /\ result.exc = ""
           /\ call.op = "read" => result.none
           /\ call.op = "write" => ~result.none /\ result.val = FALSE

----------------------------------------------------------------------------
(* C17: read_object returns a value only when the reply is a CRC-valid     *)
(* frame whose body has opcode echo 0, reported length 4 and error code 0  *)
(* and a size that struct.unpack takes for '<BBI' + the requested format   *)
(* (exactly that size where unpack is exact, at least that size where it   *)
(* reads a longer buffer); for every CRC-valid reply in which one of the   *)
(* three fields differs or whose size does not fit, it returns None.       *)

\* the received bytes are a frame with a whole number of words and a right CRC
CrcValid(rx) ==
    /\ ~byte_unstuff(rx).none
    /\ ~crc_match_raises(byte_unstuff(rx).val)
    /\ crc_match(byte_unstuff(rx).val)

BodyOf(rx) == DropLast(byte_unstuff(rx).val, 2)

SizeFits(body, fmt) ==
    /\ Len(body) >= 6 + calcsize(fmt)
    /\ strict => Len(body) = 6 + calcsize(fmt)

FieldsGood(body) ==
    /\ body[1] = 0
    /\ body[2] = 4
    /\ \A i \in 3..6 : body[i] = 0

C17_ReadValueOnlyWhenWellFormed ==
    [][(tpc = "drain" /\ tpc' = "done" /\ call.op = "read") =>
        LET fmt == objects[call.name][3]
            good == /\ CrcValid(rxData)
                    /\ SizeFits(BodyOf(rxData), fmt)
                    /\ FieldsGood(BodyOf(rxData))
        IN /\ (result'.exc = "" /\ ~result'.none) => good
           /\ (CrcValid(rxData) /\ ~good) => result' = RetNoneInt]_vars

\* a CRC-valid reply with the reported length 2 ended the read with None, and
\* so did one with a non-zero error code
C17_Witness ==
    /\ tpc = "done"
    /\ call.op = "read"
    /\ reply.kind \in {"badlen", "error"}
    /\ rxData = reply.bytes
    /\ result = RetNoneInt

----------------------------------------------------------------------------
(* C18: the bytes pending in the transport when a transaction begins are   *)
(* read out into bogus_data before the request frame is written, leaving   *)
(* the receive buffer empty; the bytes the transaction decodes are the     *)
(* bytes of the reply that arrived after the request, none of the earlier  *)
(* ones.                                                                   *)

C18_StrayDiscarded ==
    [][/\ (tpc = "send" /\ tpc' # "send")
            => /\ rxbuf' = <<>>
               /\ writes' # writes
               /\ rxbuf # <<>> => bogus_data' = rxbuf
       /\ (tpc = "drain" /\ tpc' = "done") => rxData = reply.bytes]_vars

\* the acknowledgement of an earlier write was pending; the call discarded
\* it and decoded the refusal the drive sent to its own request
C18_Witness ==
    /\ tpc = "done"
    /\ call.op = "write"
    /\ bogus_data = DriveFrame(<<0, 2, 0, 0>>)
    /\ reply.kind = "nack"
    /\ rxData = reply.bytes
    /\ result = Ret(FALSE)

----------------------------------------------------------------------------
(* C19: once the request is written, the driver decodes no reply before    *)
(* every byte of the drive's reply frame has been received, unless the     *)
(* timeout has expired - also when the frame arrives in two bursts and a   *)
(* poll between them finds the receive buffer empty.                       *)

C19_WaitsForWholeReply ==
    (tpc = "done" /\ reply # NoReply /\ rxData # <<>>)
        => /\ undelivered = <<>>
           /\ rxData = reply.bytes

----------------------------------------------------------------------------
(* C20: set_control writes the control register only if the control read   *)
(* and the mode_display read of the same call both returned a value; when  *)
(* either read ends with None, set_control issues no control write, for    *)
(* the commands of one mode and for the 'ANY' commands alike.              *)

C20_WriteOnlyAfterGoodReads ==
    (api.fn = "set_control" /\ ControlWritten)
        => /\ existing.exc = "" /\ ~existing.none
           /\ current_mode.exc = "" /\ ~current_mode.none

----------------------------------------------------------------------------
(* C21: the value or status a transaction returns is decoded only from the *)
(* bytes the drive sent in reply to that transaction's own request: when   *)
(* the reply to an earlier, timed-out request arrives after the drain at   *)
(* the start of the transaction, it is never returned as the transaction's *)
(* value (read) or success (write).                                        *)

\* the call has returned a value, or True
ReturnedSuccess ==
    /\ tpc = "done"
    /\ result.exc = ""
    /\ ~result.none
    /\ call.op = "write" => result.val = TRUE

C21_OwnReplyOnly ==
    ReturnedSuccess => /\ reply # NoReply
                       /\ rxData = reply.bytes

----------------------------------------------------------------------------
(* C22: in every control-register write, whichever operation issues it     *)
(* (set_control with any command, initialise, enable, disable,             *)
(* reset_fault, stop, home, move_with_velocity, move_to_position), bits 9  *)
(* to 15 are those of the value the same set_control call read: the union *)
(* of the masks of all commands is 0x01FF, and no bit outside it changes.  *)

RECURSIVE OrAll(_)
OrAll(S) == IF S = {} THEN 0
            ELSE LET x == CHOOSE y \in S : TRUE IN BitOr(x, OrAll(S \ {x}))

MaskUnion == OrAll({control[c][1] : c \in DOMAIN control})

C22_HighBitsKept ==
    [][(Len(wireLog') = Len(wireLog) + 1 /\ IsControlWrite(Last(wireLog')))
        => /\ MaskUnion = \H01FF
           /\ existing.exc = "" /\ ~existing.none
           /\ \A i \in 9..15 : Bit(Last(wireLog').data, i) = Bit(existing.val, i)
           /\ BitAnd(Last(wireLog').data, Invert(MaskUnion))
                = BitAnd(existing.val, Invert(MaskUnion))]_vars

\* initialise on a drive whose control word is 0xA55A: both writes carry
\* bits 9 to 15 of 0xA55A
C22_Witness ==
    /\ api.fn = "initialise"
    /\ home_pc = "returned"
    /\ Cardinality(ControlWrites(wireLog)) = 2
    /\ \A i \in ControlWrites(wireLog) : wireLog[i].data \div 512 = \HA55A \div 512

----------------------------------------------------------------------------
(* C23: when the transport delivers finitely many bytes, every read and    *)
(* every write transaction returns to its caller: the wait for the first   *)
(* byte ends when a byte is pending or when the timeout has expired, and   *)
(* the receive loop after it, which no timeout bounds, ends at the first   *)
(* poll that finds no pending byte.                                        *)

C23_Returns ==
    /\ [][/\ (tpc \in {"wait", "sleep"} /\ tpc' = "drain") => rxbuf # <<>>
          /\ (tpc = "sleep" /\ tpc' = "done") => elapsed' >= TIMEOUT_MS
          /\ (tpc = "drain" /\ tpc' # "drain") => (rxbuf = <<>> /\ tpc' = "done")
          /\ (tpc = "drain" /\ tpc' = "drain") => elapsed' = elapsed]_vars
    /\ <>(tpc = "done")

\* the receive loop ended at an empty poll although the rest of the reply
\* was still to come, and the call has returned
C23_Witness ==
    /\ tpc = "done"
    /\ reply # NoReply
    /\ undelivered # <<>>
    /\ rxData # <<>>
    /\ elapsed < TIMEOUT_MS

=============================================================================
